---- MODULE Spec2Model ----
(***************************************************************************)
(* Model of the image-processing service: the upload view that creates a  *)
(* ProcessingRequest and its Product rows and triggers the task           *)
(* (processing/views.py), and ImageProcessingTask (processing/tasks.py),  *)
(* which fetches, re-encodes and stores every image of every product,     *)
(* writes the summary CSV and marks the request completed.                *)
(*                                                                         *)
(* Text is modelled as a sequence of chunks.  The characters that the     *)
(* code treats specially (comma, double quote, slash, CR, LF) are always  *)
(* chunks of their own; any other chunk stands for a run of ordinary      *)
(* characters.                                                             *)
(***************************************************************************)
EXTENDS Integers, Sequences, FiniteSets, TLC

COMMA == ","
QUOTE == "\""
SLASH == "/"
CR    == "\r"
LF    == "\n"

(***************************************************************************)
(* String helpers (Python str.split, str.join, os.path.basename).         *)
(***************************************************************************)
RECURSIVE Concat(_)
Concat(ss) ==
    IF ss = <<>> THEN <<>> ELSE Head(ss) \o Concat(Tail(ss))

RECURSIVE Join(_, _)
Join(ss, sep) ==
    IF ss = <<>> THEN <<>>
    ELSE IF Len(ss) = 1 THEN ss[1]
    ELSE ss[1] \o <<sep>> \o Join(Tail(ss), sep)

\* s.split(sep): always at least one piece; "" splits into [""].
RECURSIVE SplitFrom(_, _, _, _)
SplitFrom(s, sep, i, cur) ==
    IF i > Len(s) THEN <<cur>>
    ELSE IF s[i] = sep THEN <<cur>> \o SplitFrom(s, sep, i + 1, <<>>)
    ELSE SplitFrom(s, sep, i + 1, Append(cur, s[i]))

Split(s, sep) == SplitFrom(s, sep, 1, <<>>)

\* os.path.basename(url): what follows the last slash.
LastSlash(s) ==
    LET idx == {i \in 1..Len(s) : s[i] = SLASH}
    IN  IF idx = {} THEN 0 ELSE CHOOSE i \in idx : \A j \in idx : j <= i

Basename(url) == SubSeq(url, LastSlash(url) + 1, Len(url))

\* os.path.join(a, b) for a relative b.
PathJoin(a, b) ==
    IF a = <<>> \/ a[Len(a)] = SLASH THEN a \o b ELSE a \o <<SLASH>> \o b

(***************************************************************************)
(* csv.DictWriter with the default (excel) dialect: delimiter comma,      *)
(* quotechar double quote, doublequote, lineterminator CR LF,             *)
(* QUOTE_MINIMAL.                                                          *)
(***************************************************************************)
CsvFieldNames ==
    << <<"Serial Number">>, <<"Product Name">>,
       <<"Input Image Urls">>, <<"Output Image Urls">> >>

CsvNeedsQuote(f) == \E i \in 1..Len(f) : f[i] \in {COMMA, QUOTE, CR, LF}

RECURSIVE CsvDouble(_)
CsvDouble(f) ==
    IF f = <<>> THEN <<>>
    ELSE (IF Head(f) = QUOTE THEN <<QUOTE, QUOTE>> ELSE <<Head(f)>>)
         \o CsvDouble(Tail(f))

CsvNoQuoteField(f) == f

CsvWriteField(f) ==
    IF CsvNeedsQuote(f) THEN <<QUOTE>> \o CsvDouble(f) \o <<QUOTE>> ELSE f

CsvWriteRow(fields) ==
    Join([i \in 1..Len(fields) |-> CsvWriteField(fields[i])], COMMA)
        \o <<CR, LF>>

\* The fields of one accumulated row, in fieldnames order; the serial
\* number is an integer and is written as its decimal text.
RowFields(row) ==
    << <<ToString(row.serial_number)>>, row.name,
       row.input_image_urls, row.output_image_urls >>

\* GenerateCsvText with writeheader() left out.
GenerateCsvTextNoHeader(output_data) ==
    Concat([i \in 1..Len(output_data) |-> CsvWriteRow(RowFields(output_data[i]))])

\* writeheader() followed by writerows(output_data).
GenerateCsvText(output_data) ==
    CsvWriteRow(CsvFieldNames)
        \o Concat([i \in 1..Len(output_data) |->
                      CsvWriteRow(RowFields(output_data[i]))])

(***************************************************************************)
(* csv.reader with the same dialect, as the state machine of the csv      *)
(* module: the text is read line by line (a line ends after LF) and an    *)
(* end-of-line mark is processed after each line.                          *)
(***************************************************************************)
EOL == "<EOL>"

CsvStart == [st |-> "START_RECORD", field |-> <<>>, fields |-> <<>>, rows |-> <<>>]

CsvSaveField(r) == [r EXCEPT !.fields = Append(r.fields, r.field), !.field = <<>>]

CsvEndRecord(r, c) ==
    LET s == CsvSaveField(r)
    IN  IF c = EOL
        THEN [s EXCEPT !.st = "START_RECORD", !.rows = Append(s.rows, s.fields),
                       !.fields = <<>>]
        ELSE [s EXCEPT !.st = "EAT_CRNL"]

CsvStartField(r, c) ==
    IF c \in {CR, LF, EOL} THEN CsvEndRecord(r, c)
    ELSE IF c = QUOTE THEN [r EXCEPT !.st = "IN_QUOTED_FIELD"]
    ELSE IF c = COMMA THEN [CsvSaveField(r) EXCEPT !.st = "START_FIELD"]
    ELSE [r EXCEPT !.field = Append(r.field, c), !.st = "IN_FIELD"]

CsvChar(r, c) ==
    CASE r.st = "START_RECORD" ->
            IF c = EOL THEN [r EXCEPT !.rows = Append(r.rows, <<>>)]
            ELSE IF c \in {CR, LF} THEN [r EXCEPT !.st = "EAT_CRNL"]
            ELSE CsvStartField(r, c)
      [] r.st = "START_FIELD" -> CsvStartField(r, c)
      [] r.st = "IN_FIELD" ->
            IF c \in {CR, LF, EOL} THEN CsvEndRecord(r, c)
            ELSE IF c = COMMA THEN [CsvSaveField(r) EXCEPT !.st = "START_FIELD"]
            ELSE [r EXCEPT !.field = Append(r.field, c)]
      [] r.st = "IN_QUOTED_FIELD" ->
            IF c = EOL THEN r
            ELSE IF c = QUOTE THEN [r EXCEPT !.st = "QUOTE_IN_QUOTED_FIELD"]
            ELSE [r EXCEPT !.field = Append(r.field, c)]
      [] r.st = "QUOTE_IN_QUOTED_FIELD" ->
            IF c = QUOTE
            THEN [r EXCEPT !.field = Append(r.field, c), !.st = "IN_QUOTED_FIELD"]
            ELSE IF c = COMMA THEN [CsvSaveField(r) EXCEPT !.st = "START_FIELD"]
            ELSE IF c \in {CR, LF, EOL} THEN CsvEndRecord(r, c)
            ELSE [r EXCEPT !.field = Append(r.field, c), !.st = "IN_FIELD"]
      [] r.st = "EAT_CRNL" ->
            IF c \in {CR, LF} THEN r
            ELSE IF c = EOL
            THEN [r EXCEPT !.st = "START_RECORD", !.rows = Append(r.rows, r.fields),
                           !.fields = <<>>]
            ELSE [r EXCEPT !.st = "ERROR"]
      [] OTHER -> r

RECURSIVE CsvScan(_, _, _)
CsvScan(text, i, r) ==
    IF i > Len(text)
    THEN IF text # <<>> /\ text[Len(text)] # LF THEN CsvChar(r, EOL) ELSE r
    ELSE LET r1 == CsvChar(r, text[i])
             r2 == IF text[i] = LF THEN CsvChar(r1, EOL) ELSE r1
         IN  IF r2.st = "ERROR" THEN r2 ELSE CsvScan(text, i + 1, r2)

\* The rows a reader yields; at the end of the input an unfinished record
\* is flushed.  csv.DictReader skips the empty rows.
CsvParse(text) ==
    LET r == CsvScan(text, 1, CsvStart)
        all == IF r.st # "START_RECORD" /\ (r.field # <<>> \/ r.st = "IN_QUOTED_FIELD")
               THEN Append(r.rows, Append(r.fields, r.field))
               ELSE r.rows
    IN  SelectSeq(all, LAMBDA row : row # <<>>)

(***************************************************************************)
(* Inputs.  An uploaded manifest is a sequence of rows; each row gives    *)
(* the serial number, the product name and the comma-joined input URLs.   *)
(***************************************************************************)
MaxItems == 2

UrlXA == <<"x", SLASH, "a">>
UrlXB == <<"x", SLASH, "b">>
UrlYA == <<"y", SLASH, "a">>

ManifestRows ==
    { [serial_number |-> 1, name |-> <<"Widget">>,
       input_image_urls |-> Join(<<UrlXA, UrlYA>>, COMMA)],
      [serial_number |-> 2, name |-> <<"Gad", COMMA, QUOTE, "g", LF, "et">>,
       input_image_urls |-> UrlXB] }

Manifests == UNION {[1..n -> ManifestRows] : n \in 0..MaxItems}

Procs == {"p1"}

\* settings.MEDIA_URL and the directory of the processed images.
MediaUrl == <<SLASH, "media", SLASH>>
ProcessedDir == <<"processed_images">>

NoFile == 0

VARIABLES
    requests,    \* ProcessingRequest table: request_id -> row
    products,    \* Product table: rows in creation order (pk = index)
    files,       \* processed_images directory: filename -> content
    artifacts,   \* stored result files (results/), by reference
    uuids,       \* number of request ids generated so far
    pc,          \* position of each request-handling process
    origin,      \* "view" (upload) or "task" (run invoked directly)
    request_id,  \* the request id the process works on
    pending,     \* manifest rows not yet created
    task,        \* the ImageProcessingTask instance and process_images locals
    response,    \* HTTP status answered by the upload view, 0 = none yet
    log,         \* what the process logged about image attempts and saves
    answer       \* what the status view answered last

vars == <<requests, products, files, artifacts, uuids, pc, origin, request_id,
          pending, task, response, log, answer>>

dbVars == <<requests, products, files, artifacts>>

NoTask ==
    [processing_request |-> [completed |-> FALSE, result_file |-> NoFile],
     products |-> <<>>, product |-> <<>>, input_urls |-> <<>>,
     output_urls |-> <<>>, output_data |-> <<>>, filename |-> <<>>]

\* An answer of the status view: the request_id parameter it was asked
\* with (0 = none given), the HTTP status and the body.
Answer(asked, status, body) == [asked |-> asked, status |-> status, body |-> body]

NoAnswer == Answer(0, 0, <<>>)

Init ==
    /\ requests = <<>>
    /\ products = <<>>
    /\ files = <<>>
    /\ artifacts = <<>>
    /\ uuids = 0
    /\ pc = [p \in Procs |-> "idle"]
    /\ origin = [p \in Procs |-> "none"]
    /\ request_id = [p \in Procs |-> 0]
    /\ pending = [p \in Procs |-> <<>>]
    /\ task = [p \in Procs |-> NoTask]
    /\ response = [p \in Procs |-> 0]
    /\ log = [p \in Procs |-> <<>>]
    /\ answer = NoAnswer

HTTP_200_OK == 200
HTTP_201_CREATED == 201
HTTP_400_BAD_REQUEST == 400
HTTP_500_INTERNAL_SERVER_ERROR == 500

Put(f, k, v) == [x \in DOMAIN f \cup {k} |-> IF x = k THEN v ELSE f[x]]

LogEntry(ev, pk, url, loc) == [ev |-> ev, pk |-> pk, url |-> url, loc |-> loc]

(***************************************************************************)
(* UploadCSVView.post                                                      *)
(***************************************************************************)
\* No file, or a file whose name does not end in .csv: answered before
\* anything is created.
PostReject(p) ==
    /\ pc[p] = "idle"
    /\ uuids' = uuids + 1
    /\ request_id' = [request_id EXCEPT ![p] = uuids + 1]
    /\ origin' = [origin EXCEPT ![p] = "view"]
    /\ response' = [response EXCEPT ![p] = HTTP_400_BAD_REQUEST]
    /\ pc' = [pc EXCEPT ![p] = "done"]
    /\ UNCHANGED <<dbVars, pending, task, log, answer>>

\* The request row is created, then the header is read; with no header or
\* a required column missing the view answers 400.
PostBadHeader(p) ==
    /\ pc[p] = "idle"
    /\ uuids' = uuids + 1
    /\ request_id' = [request_id EXCEPT ![p] = uuids + 1]
    /\ origin' = [origin EXCEPT ![p] = "view"]
    /\ requests' = Put(requests, uuids + 1,
                       [completed |-> FALSE, result_file |-> NoFile])
    /\ response' = [response EXCEPT ![p] = HTTP_400_BAD_REQUEST]
    /\ pc' = [pc EXCEPT ![p] = "done"]
    /\ UNCHANGED <<products, files, artifacts, pending, task, log, answer>>

PostCreate(p) ==
    /\ pc[p] = "idle"
    /\ \E m \in Manifests :
          pending' = [pending EXCEPT ![p] = m]
    /\ uuids' = uuids + 1
    /\ request_id' = [request_id EXCEPT ![p] = uuids + 1]
    /\ origin' = [origin EXCEPT ![p] = "view"]
    /\ requests' = Put(requests, uuids + 1,
                       [completed |-> FALSE, result_file |-> NoFile])
    /\ pc' = [pc EXCEPT ![p] = "rows"]
    /\ UNCHANGED <<products, files, artifacts, task, response, log, answer>>

\* One pass of the loop over the reader's rows.
CreateProduct(p) ==
    /\ pc[p] = "rows"
    /\ pending[p] # <<>>
    /\ LET row == Head(pending[p])
       IN  products' = Append(products,
               [request |-> request_id[p],
                serial_number |-> row.serial_number,
                name |-> row.name,
                input_image_urls |-> row.input_image_urls,
                output_image_urls |-> <<>>,
                processed |-> FALSE])
    /\ pending' = [pending EXCEPT ![p] = Tail(pending[p])]
    /\ UNCHANGED <<requests, files, artifacts, uuids, pc, origin, request_id,
                   task, response, log, answer>>

\* The loop over the rows fails at a row: the reader raises csv.Error,
\* answered 400, or anything else raises (a serial number that is no
\* integer, a database error), and the handler for it builds Response with
\* a keyword Response does not take, so the exception leaves the view.  The
\* request row and the products created before stay.
CreateProductFail(p) ==
    /\ pc[p] = "rows"
    /\ pending[p] # <<>>
    /\ \E code \in {HTTP_400_BAD_REQUEST, HTTP_500_INTERNAL_SERVER_ERROR} :
          response' = [response EXCEPT ![p] = code]
    /\ pc' = [pc EXCEPT ![p] = "done"]
    /\ UNCHANGED <<dbVars, uuids, origin, request_id, pending, task, log, answer>>

\* The loop is over: the view calls ImageProcessingTask.run(request_id).
Trigger(p) ==
    /\ pc[p] = "rows"
    /\ pending[p] = <<>>
    /\ pc' = [pc EXCEPT ![p] = "init"]
    /\ UNCHANGED <<dbVars, uuids, origin, request_id, pending, task, response, log, answer>>

\* run is also a registered task: it can be invoked with any request id,
\* here one that no request row carries.
RunDirect(p) ==
    /\ pc[p] = "idle"
    /\ uuids' = uuids + 1
    /\ request_id' = [request_id EXCEPT ![p] = uuids + 1]
    /\ origin' = [origin EXCEPT ![p] = "task"]
    /\ pc' = [pc EXCEPT ![p] = "init"]
    /\ UNCHANGED <<dbVars, pending, task, response, log, answer>>

\* What the view answers once run has ended: 201 when the call returned,
\* 400 when it raised.
Respond(p) ==
    /\ origin[p] = "view"
    /\ pc[p] \in {"returned", "raised"}
    /\ response[p] = 0
    /\ response' = [response EXCEPT ![p] =
           IF pc[p] = "returned" THEN HTTP_201_CREATED ELSE HTTP_400_BAD_REQUEST]
    /\ UNCHANGED <<dbVars, uuids, pc, origin, request_id, pending, task, log, answer>>


(***************************************************************************)
(* ImageProcessingTask                                                     *)
(***************************************************************************)
\* The process's task ends: run returned normally (it logged a ValueError,
\* or process_images ran to its end), or an exception left run.
Returned(p) == pc' = [pc EXCEPT ![p] = "returned"]
Raised(p) == pc' = [pc EXCEPT ![p] = "raised"]

\* __init__: the request row is read into self.processing_request and the
\* output directory is made.
TaskInit(p) ==
    /\ pc[p] = "init"
    /\ request_id[p] \in DOMAIN requests
    /\ task' = [task EXCEPT ![p] =
           [NoTask EXCEPT !.processing_request = requests[request_id[p]]]]
    /\ pc' = [pc EXCEPT ![p] = "load"]
    /\ UNCHANGED <<dbVars, uuids, origin, request_id, pending, response, log, answer>>

\* __init__: DoesNotExist is logged and raised as ValueError, which run
\* catches.
TaskInitUnknown(p) ==
    /\ pc[p] = "init"
    /\ request_id[p] \notin DOMAIN requests
    /\ log' = [log EXCEPT ![p] = Append(@, LogEntry("unknown_request", 0, <<>>, <<>>))]
    /\ Returned(p)
    /\ UNCHANGED <<dbVars, uuids, origin, request_id, pending, task, response, answer>>

\* __init__: os.makedirs fails; OSError is not a ValueError and leaves run.
TaskInitMakedirsFail(p) ==
    /\ pc[p] = "init"
    /\ request_id[p] \in DOMAIN requests
    /\ log' = [log EXCEPT ![p] = Append(@, LogEntry("makedirs_failed", 0, <<>>, <<>>))]
    /\ Raised(p)
    /\ UNCHANGED <<dbVars, uuids, origin, request_id, pending, task, response, answer>>

\* The primary keys of the request's products.
ProductPks(rid) == {pk \in 1..Len(products) : products[pk].request = rid}

\* The orders in which product_set.all() may deliver the rows: the query
\* has no ORDER BY and Product declares no ordering.
Orders(pks) ==
    {o \in [1..Cardinality(pks) -> pks] :
        \A i, j \in 1..Cardinality(pks) : i # j => o[i] # o[j]}

QuerysetOrders(pks) == Orders(pks)

Loaded(pk) == [pk |-> pk] @@ products[pk]

\* The queryset is evaluated when the for loop starts.
LoadProducts(p) ==
    /\ pc[p] = "load"
    /\ \E o \in QuerysetOrders(ProductPks(request_id[p])) :
          task' = [task EXCEPT ![p].products = [i \in 1..Len(o) |-> Loaded(o[i])]]
    /\ pc' = [pc EXCEPT ![p] = "next"]
    /\ UNCHANGED <<dbVars, uuids, origin, request_id, pending, response, log, answer>>

\* NextProduct with the product after the one taken dropped from the loop.
NextProductSkip(p) ==
    /\ pc[p] = "next"
    /\ task[p].products # <<>>
    /\ LET product == Head(task[p].products)
       IN  task' = [task EXCEPT ![p].products =
                                    IF Len(@) > 1 THEN Tail(Tail(@)) ELSE Tail(@),
                                ![p].product = <<product>>,
                                ![p].input_urls = Split(product.input_image_urls, COMMA),
                                ![p].output_urls = <<>>]
    /\ pc' = [pc EXCEPT ![p] = "url"]
    /\ UNCHANGED <<dbVars, uuids, origin, request_id, pending, response, log, answer>>

\* Head of the loop over the products: the next product's URLs are split.
NextProduct(p) ==
    /\ pc[p] = "next"
    /\ task[p].products # <<>>
    /\ LET product == Head(task[p].products)
       IN  task' = [task EXCEPT ![p].products = Tail(@),
                                ![p].product = <<product>>,
                                ![p].input_urls = Split(product.input_image_urls, COMMA),
                                ![p].output_urls = <<>>]
    /\ pc' = [pc EXCEPT ![p] = "url"]
    /\ UNCHANGED <<dbVars, uuids, origin, request_id, pending, response, log, answer>>

\* ProductsDone with the loop left while products remain.
ProductsDoneEarly(p) ==
    /\ pc[p] = "next"
    /\ pc' = [pc EXCEPT ![p] = "csv"]
    /\ UNCHANGED <<dbVars, uuids, origin, request_id, pending, task, response, log, answer>>

\* The loop over the products is over.
ProductsDone(p) ==
    /\ pc[p] = "next"
    /\ task[p].products = <<>>
    /\ pc' = [pc EXCEPT ![p] = "csv"]
    /\ UNCHANGED <<dbVars, uuids, origin, request_id, pending, task, response, log, answer>>

CurrentProduct(p) == task[p].product[1]
CurrentUrl(p) == Head(task[p].input_urls)

\* Filename with the whole URL kept instead of its basename.
FilenameWholeUrl(url) == <<"compressed_">> \o url

Filename(url) == <<"compressed_">> \o Basename(url)
ImageUrl(filename) == PathJoin(PathJoin(MediaUrl, ProcessedDir), filename)

\* The content written for a URL: its image re-encoded at quality 50.
Transcoded(url) == <<"transcoded", url>>
Truncated == <<"truncated">>

\* The URL is done without a fatal error: on to the next URL, or to the
\* save of the product when it was the last.
UrlDone(p) ==
    pc' = [pc EXCEPT ![p] = IF Len(task[p].input_urls) = 1 THEN "save" ELSE "url"]

\* FetchFail with the failure logged and skipped like a decode failure.
FetchFailContinue(p) ==
    /\ pc[p] = "url"
    /\ log' = [log EXCEPT ![p] =
           Append(@, LogEntry("fetch_failed", task[p].product[1].pk,
                              Head(task[p].input_urls), <<>>))]
    /\ task' = [task EXCEPT ![p].input_urls = Tail(@)]
    /\ pc' = [pc EXCEPT ![p] = IF Len(task[p].input_urls) = 1 THEN "save" ELSE "url"]
    /\ UNCHANGED <<dbVars, uuids, origin, request_id, pending, response, answer>>

\* FetchFail with the request's products reset, as a rollback would.
FetchFailRollback(p) ==
    /\ pc[p] = "url"
    /\ log' = [log EXCEPT ![p] =
           Append(@, LogEntry("fetch_failed", task[p].product[1].pk,
                              Head(task[p].input_urls), <<>>))]
    /\ products' = [pk \in 1..Len(products) |->
           IF products[pk].request = request_id[p]
           THEN [products[pk] EXCEPT !.processed = FALSE, !.output_image_urls = <<>>]
           ELSE products[pk]]
    /\ pc' = [pc EXCEPT ![p] = "returned"]
    /\ UNCHANGED <<requests, files, artifacts, uuids, origin, request_id,
                   pending, task, response, answer>>

\* requests.get or raise_for_status raises RequestException: logged and
\* raised as ValueError.
FetchFail(p) ==
    /\ pc[p] = "url"
    /\ log' = [log EXCEPT ![p] =
           Append(@, LogEntry("fetch_failed", CurrentProduct(p).pk, CurrentUrl(p), <<>>))]
    /\ Returned(p)
    /\ UNCHANGED <<dbVars, uuids, origin, request_id, pending, task, response, answer>>

\* Image.open or img.save raises an OSError (UnidentifiedImageError, a
\* truncated file, a mode the format cannot write).  The IOError handler
\* takes it; its message reads filename, which is unbound until some URL
\* of this run got as far as line 64.
DecodeIOError(p) ==
    /\ pc[p] = "url"
    /\ log' = [log EXCEPT ![p] =
           Append(@, LogEntry("decode_io_error", CurrentProduct(p).pk, CurrentUrl(p), <<>>))]
    /\ IF task[p].filename = <<>> THEN Raised(p) ELSE Returned(p)
    /\ UNCHANGED <<dbVars, uuids, origin, request_id, pending, task, response, answer>>

\* DecodeOtherError with an empty entry put in the output list for the
\* skipped image.
DecodeOtherErrorPlaceholder(p) ==
    /\ pc[p] = "url"
    /\ log' = [log EXCEPT ![p] =
           Append(@, LogEntry("decode_skipped", task[p].product[1].pk,
                              Head(task[p].input_urls), <<>>))]
    /\ task' = [task EXCEPT ![p].input_urls = Tail(@),
                            ![p].output_urls = Append(@, <<>>)]
    /\ pc' = [pc EXCEPT ![p] = IF Len(task[p].input_urls) = 1 THEN "save" ELSE "url"]
    /\ UNCHANGED <<dbVars, uuids, origin, request_id, pending, response, answer>>

\* DecodeOtherError leaving the loop over the URLs (break for continue).
DecodeOtherErrorBreak(p) ==
    /\ pc[p] = "url"
    /\ log' = [log EXCEPT ![p] =
           Append(@, LogEntry("decode_skipped", task[p].product[1].pk,
                              Head(task[p].input_urls), <<>>))]
    /\ task' = [task EXCEPT ![p].input_urls = Tail(@)]
    /\ pc' = [pc EXCEPT ![p] = "save"]
    /\ UNCHANGED <<dbVars, uuids, origin, request_id, pending, response, answer>>

\* Image.open or img.save raises any other exception: logged, continue.
DecodeOtherError(p) ==
    /\ pc[p] = "url"
    /\ log' = [log EXCEPT ![p] =
           Append(@, LogEntry("decode_skipped", CurrentProduct(p).pk, CurrentUrl(p), <<>>))]
    /\ task' = [task EXCEPT ![p].input_urls = Tail(@)]
    /\ UrlDone(p)
    /\ UNCHANGED <<dbVars, uuids, origin, request_id, pending, response, answer>>

\* open(file_path, "wb") or f.write raises: the file is untouched when the
\* open failed and cut short when the write failed.
StoreFail(p) ==
    /\ pc[p] = "url"
    /\ LET filename == Filename(CurrentUrl(p))
       IN  /\ task' = [task EXCEPT ![p].filename = <<filename>>]
           /\ \/ files' = files
              \/ files' = Put(files, filename, Truncated)
           /\ log' = [log EXCEPT ![p] =
                  Append(@, LogEntry("store_failed", CurrentProduct(p).pk,
                                     CurrentUrl(p), <<>>))]
    /\ Returned(p)
    /\ UNCHANGED <<requests, products, artifacts, uuids, origin, request_id,
                   pending, response, answer>>

\* The image is fetched, re-encoded and written; its URL is appended.
StoreOk(p) ==
    /\ pc[p] = "url"
    /\ LET filename == Filename(CurrentUrl(p))
           image_url == ImageUrl(filename)
       IN  /\ files' = Put(files, filename, Transcoded(CurrentUrl(p)))
           /\ task' = [task EXCEPT ![p].filename = <<filename>>,
                                   ![p].output_urls = Append(@, image_url),
                                   ![p].input_urls = Tail(@)]
           /\ log' = [log EXCEPT ![p] =
                  Append(@, LogEntry("stored", CurrentProduct(p).pk,
                                     CurrentUrl(p), image_url))]
    /\ UrlDone(p)
    /\ UNCHANGED <<requests, products, artifacts, uuids, origin, request_id,
                   pending, response, answer>>

\* The product as process_images leaves it in memory (lines 87-88).
Finished(product, output_urls) ==
    [product EXCEPT !.output_image_urls = Join(output_urls, COMMA),
                    !.processed = TRUE]

\* SavedRow with the output written to the input column as well.
SavedRowMixed(product) ==
    [request |-> product.request, serial_number |-> product.serial_number,
     name |-> product.name, input_image_urls |-> product.output_image_urls,
     output_image_urls |-> product.output_image_urls,
     processed |-> product.processed]

\* The table row that product.save() writes: every field of the instance.
SavedRow(product) ==
    [request |-> product.request, serial_number |-> product.serial_number,
     name |-> product.name, input_image_urls |-> product.input_image_urls,
     output_image_urls |-> product.output_image_urls,
     processed |-> product.processed]

SummaryRow(product) ==
    [serial_number |-> product.serial_number, name |-> product.name,
     input_image_urls |-> product.input_image_urls,
     output_image_urls |-> product.output_image_urls]

\* Lines 87-98: the product is saved and its row joins output_data.
SaveProduct(p) ==
    /\ pc[p] = "save"
    /\ LET product == Finished(CurrentProduct(p), task[p].output_urls)
       IN  /\ products' = [products EXCEPT ![product.pk] = SavedRow(product)]
           /\ task' = [task EXCEPT ![p].product = <<>>,
                                   ![p].output_data = Append(@, SummaryRow(product))]
           /\ log' = [log EXCEPT ![p] =
                  Append(@, LogEntry("saved", product.pk, <<>>, <<>>))]
    /\ pc' = [pc EXCEPT ![p] = "next"]
    /\ UNCHANGED <<requests, files, artifacts, uuids, origin, request_id,
                   pending, response, answer>>

\* product.save() raises a database error: nothing catches it before run,
\* and run catches ValueError only.
SaveProductFail(p) ==
    /\ pc[p] = "save"
    /\ log' = [log EXCEPT ![p] =
           Append(@, LogEntry("save_failed", CurrentProduct(p).pk, <<>>, <<>>))]
    /\ Raised(p)
    /\ UNCHANGED <<dbVars, uuids, origin, request_id, pending, task, response, answer>>

\* generate_csv: the text is stored as a new file and the request row is
\* saved from self.processing_request with the reference to it.
GenerateCsv(p) ==
    /\ pc[p] = "csv"
    /\ LET ref == Len(artifacts) + 1
           pr == [task[p].processing_request EXCEPT !.result_file = ref]
       IN  /\ artifacts' = Append(artifacts, GenerateCsvText(task[p].output_data))
           /\ task' = [task EXCEPT ![p].processing_request = pr]
           /\ requests' = [requests EXCEPT ![request_id[p]] = pr]
    /\ pc' = [pc EXCEPT ![p] = "complete"]
    /\ UNCHANGED <<products, files, uuids, origin, request_id, pending, response, log, answer>>

\* generate_csv fails, in the storage (nothing is stored) or in the save of
\* the request row (the file is stored, the row is not written): logged and
\* raised as ValueError.
GenerateCsvFail(p) ==
    /\ pc[p] = "csv"
    /\ \/ UNCHANGED <<artifacts, task>>
       \/ /\ artifacts' = Append(artifacts, GenerateCsvText(task[p].output_data))
          /\ task' = [task EXCEPT ![p].processing_request.result_file =
                                      Len(artifacts) + 1]
    /\ log' = [log EXCEPT ![p] = Append(@, LogEntry("csv_failed", 0, <<>>, <<>>))]
    /\ Returned(p)
    /\ UNCHANGED <<requests, products, files, uuids, origin, request_id,
                   pending, response, answer>>

\* complete_request: completed is set and the request row saved.
CompleteRequest(p) ==
    /\ pc[p] = "complete"
    /\ LET pr == [task[p].processing_request EXCEPT !.completed = TRUE]
       IN  /\ task' = [task EXCEPT ![p].processing_request = pr]
           /\ requests' = [requests EXCEPT ![request_id[p]] = pr]
    /\ log' = [log EXCEPT ![p] = Append(@, LogEntry("completed", 0, <<>>, <<>>))]
    /\ Returned(p)
    /\ UNCHANGED <<products, files, artifacts, uuids, origin, request_id,
                   pending, response, answer>>

\* CompleteRequestFail with the batch started again after the failure.
CompleteRequestFailRetry(p) ==
    /\ pc[p] = "complete"
    /\ task' = [task EXCEPT ![p].processing_request.completed = TRUE]
    /\ log' = [log EXCEPT ![p] = Append(@, LogEntry("complete_failed", 0, <<>>, <<>>))]
    /\ pc' = [pc EXCEPT ![p] = "load"]
    /\ UNCHANGED <<dbVars, uuids, origin, request_id, pending, response, answer>>

\* complete_request: the save fails; logged and raised as ValueError.
CompleteRequestFail(p) ==
    /\ pc[p] = "complete"
    /\ task' = [task EXCEPT ![p].processing_request.completed = TRUE]
    /\ log' = [log EXCEPT ![p] = Append(@, LogEntry("complete_failed", 0, <<>>, <<>>))]
    /\ Returned(p)
    /\ UNCHANGED <<dbVars, uuids, origin, request_id, pending, response, answer>>

Next ==
    \E p \in Procs :
        \/ PostReject(p)
        \/ PostBadHeader(p)
        \/ PostCreate(p)
        \/ CreateProduct(p)
        \/ CreateProductFail(p)
        \/ Trigger(p)
        \/ RunDirect(p)
        \/ Respond(p)
        \/ TaskInit(p)
        \/ TaskInitUnknown(p)
        \/ TaskInitMakedirsFail(p)
        \/ LoadProducts(p)
        \/ NextProduct(p)
        \/ ProductsDone(p)
        \/ FetchFail(p)
        \/ DecodeIOError(p)
        \/ DecodeOtherError(p)
        \/ StoreFail(p)
        \/ StoreOk(p)
        \/ SaveProduct(p)
        \/ SaveProductFail(p)
        \/ GenerateCsv(p)
        \/ GenerateCsvFail(p)
        \/ CompleteRequest(p)
        \/ CompleteRequestFail(p)

Spec == Init /\ [][Next]_vars

(***************************************************************************)
(* StatusCheckView.get                                                     *)
(***************************************************************************)
\* The fields ProcessingRequestSerializer declares on the class, and the
\* fields its Meta lists.
DeclaredFields == {"products"}
MetaFields == {"request_id", "created_at", "completed"}

\* ModelSerializer builds its fields when .data is first read, and refuses
\* a declared field that Meta.fields does not list.
SerializerBuilds == DeclaredFields \subseteq MetaFields

\* serializer.data: the listed fields of the row (created_at is a column
\* the pipeline never reads or writes).
SerializerData(rid) ==
    [request_id |-> rid, completed |-> requests[rid].completed]

\* ErrorAPIResponse: the body is the error message alone.
ErrorBody(message) == [error |-> message]

\* What the except clause of the view returns: no status is passed, the
\* response is sent with the default one.
StatusException(asked) == Answer(asked, HTTP_200_OK, ErrorBody("STATUS_EXCEPTION"))

\* No request_id parameter.
StatusMissingId ==
    /\ answer' = Answer(0, HTTP_400_BAD_REQUEST, ErrorBody("MISSING_REQUEST_ID"))
    /\ UNCHANGED <<dbVars, uuids, pc, origin, request_id, pending, task,
                   response, log>>

\* No row has the id: get_object_or_404 raises Http404 inside the try
\* block, and the except clause takes it.
StatusNotFound ==
    /\ \E rid \in 1..(uuids + 1) :
          /\ rid \notin DOMAIN requests
          /\ answer' = StatusException(rid)
    /\ UNCHANGED <<dbVars, uuids, pc, origin, request_id, pending, task,
                   response, log>>

\* A row has the id: it is serialized and sent, or the serializer raises
\* and the except clause takes it.
StatusFound ==
    /\ \E rid \in DOMAIN requests :
          answer' = IF SerializerBuilds
                    THEN Answer(rid, HTTP_200_OK, SerializerData(rid))
                    ELSE StatusException(rid)
    /\ UNCHANGED <<dbVars, uuids, pc, origin, request_id, pending, task,
                   response, log>>

StatusCheck ==
    \/ StatusMissingId
    \/ StatusNotFound
    \/ StatusFound

\* The upload pipeline with status queries arriving at any moment.
NextStatus == Next \/ StatusCheck

SpecStatus == Init /\ [][NextStatus]_vars

(***************************************************************************)
(* Two invocations of ImageProcessingTask.run at once.  run is a          *)
(* registered task and the view calls it in the thread of each upload, so *)
(* two invocations can be under way together, for two requests or for the *)
(* same one.  The state they start in is that left by two uploads whose   *)
(* rows are all created.                                                   *)
(***************************************************************************)
RunProcs == {"r1", "r2"}

\* The uploads behind the two requests: one row each.
RunManifests == {<<row>> : row \in ManifestRows}

\* The row Product.objects.create writes for a row of the manifest.
CreatedRow(rid, row) ==
    [request |-> rid,
     serial_number |-> row.serial_number,
     name |-> row.name,
     input_image_urls |-> row.input_image_urls,
     output_image_urls |-> <<>>,
     processed |-> FALSE]

CreatedRows(rid, m) == [i \in 1..Len(m) |-> CreatedRow(rid, m[i])]

InitRuns ==
    /\ requests = [rid \in 1..2 |-> [completed |-> FALSE, result_file |-> NoFile]]
    /\ \E m1, m2 \in RunManifests :
          products = CreatedRows(1, m1) \o CreatedRows(2, m2)
    /\ files = <<>>
    /\ artifacts = <<>>
    /\ uuids = 2
    /\ pc = [p \in RunProcs |-> "init"]
    /\ origin = [p \in RunProcs |-> "task"]
    /\ \E rid \in 1..2 : request_id = [p \in RunProcs |-> IF p = "r1" THEN 1 ELSE rid]
    /\ pending = [p \in RunProcs |-> <<>>]
    /\ task = [p \in RunProcs |-> NoTask]
    /\ response = [p \in RunProcs |-> 0]
    /\ log = [p \in RunProcs |-> <<>>]
    /\ answer = NoAnswer

NextRuns ==
    \E p \in RunProcs :
        \/ TaskInit(p)
        \/ TaskInitMakedirsFail(p)
        \/ LoadProducts(p)
        \/ NextProduct(p)
        \/ ProductsDone(p)
        \/ FetchFail(p)
        \/ DecodeIOError(p)
        \/ DecodeOtherError(p)
        \/ StoreFail(p)
        \/ StoreOk(p)
        \/ SaveProduct(p)
        \/ SaveProductFail(p)
        \/ GenerateCsv(p)
        \/ GenerateCsvFail(p)
        \/ CompleteRequest(p)
        \/ CompleteRequestFail(p)

SpecRuns == InitRuns /\ [][NextRuns]_vars

(***************************************************************************)
(* Vocabulary of the properties.                                           *)
(***************************************************************************)
RunEnded(p) == pc[p] \in {"returned", "raised"}

Events(p, evs) == {i \in 1..Len(log[p]) : log[p][i].ev \in evs}

EventsOf(p, pk, evs) == {i \in Events(p, evs) : log[p][i].pk = pk}

AttemptEvents == {"fetch_failed", "decode_io_error", "decode_skipped",
                  "store_failed", "stored"}

DecodeFailures == {"decode_io_error", "decode_skipped"}

OtherFailures == {"unknown_request", "makedirs_failed", "fetch_failed",
                  "store_failed", "save_failed", "csv_failed", "complete_failed"}

\* The log entries of the attempts on one product, in order.
AttemptsOn(p, pk) ==
    SelectSeq(log[p], LAMBDA e : e.pk = pk /\ e.ev \in AttemptEvents)

\* The products saved by the run, in the order of their saves.
SavedOrder(p) ==
    LET saves == SelectSeq(log[p], LAMBDA e : e.ev = "saved")
    IN  [i \in 1..Len(saves) |-> saves[i].pk]

InputList(pk) == Split(products[pk].input_image_urls, COMMA)

\* The stored output field read back as a list: the empty field is the
\* empty list.
OutputList(pk) ==
    IF products[pk].output_image_urls = <<>> THEN <<>>
    ELSE Split(products[pk].output_image_urls, COMMA)

\* Where the output of each input URL of the model is expected.
ExpectedLocation(url) ==
    CASE url = UrlXA -> <<"/", "media", "/", "processed_images", "/", "compressed_", "a">>
      [] url = UrlYA -> <<"/", "media", "/", "processed_images", "/", "compressed_", "a">>
      [] url = UrlXB -> <<"/", "media", "/", "processed_images", "/", "compressed_", "b">>
      [] OTHER -> <<>>

DecimalText(n) == CASE n = 1 -> <<"1">> [] n = 2 -> <<"2">> [] OTHER -> <<>>

(***************************************************************************)
(* C1.  A request that is completed has every one of its products         *)
(* processed and refers to a stored summary file; and a request that is   *)
(* completed stays completed in every later state.                         *)
(***************************************************************************)
C1_CompletedState ==
    \A rid \in DOMAIN requests :
        requests[rid].completed =>
            /\ \A pk \in ProductPks(rid) : products[pk].processed
            /\ requests[rid].result_file \in 1..Len(artifacts)

C1_CompletedStays ==
    \A rid \in DOMAIN requests :
        requests[rid].completed =>
            rid \in DOMAIN requests' /\ requests'[rid].completed

\* C1: completed implies all processed and the summary referenced, in
\* every state, and no step takes completed back.
C1_Completed == [](C1_CompletedState) /\ [][C1_CompletedStays]_vars

\* A completed request with two products, answered by the view.
C1_Witness ==
    \E p \in Procs :
        /\ request_id[p] \in DOMAIN requests
        /\ requests[request_id[p]].completed
        /\ Cardinality(ProductPks(request_id[p])) = 2
        /\ response[p] = HTTP_201_CREATED

(***************************************************************************)
(* C2.  When the fetch of a URL of a product fails, the run halts there:  *)
(* nothing is attempted or saved afterwards, the product stays            *)
(* unprocessed with an empty output field, only the products saved before *)
(* it are processed, it has no summary row, no summary file is produced   *)
(* and the request stays not completed.                                    *)
(***************************************************************************)
C2_FetchFailureHalts ==
    \A p \in Procs : \A i \in Events(p, {"fetch_failed"}) :
        LET pk == log[p][i].pk
            rid == request_id[p]
        IN  /\ i = Len(log[p])
            /\ pc[p] = "returned"
            /\ ~products[pk].processed
            /\ products[pk].output_image_urls = <<>>
            /\ \A k \in ProductPks(rid) :
                  products[k].processed <=> EventsOf(p, k, {"saved"}) # {}
            /\ EventsOf(p, pk, {"saved"}) = {}
            /\ Len(task[p].output_data) = Cardinality(Events(p, {"saved"}))
            /\ task[p].processing_request.result_file = NoFile
            /\ requests[rid].result_file = NoFile
            /\ artifacts = <<>>
            /\ ~requests[rid].completed

\* The first product was processed with two output URLs, the fetch for
\* the second failed.
C2_Witness ==
    \E p \in Procs : \E i \in Events(p, {"fetch_failed"}) :
        \E k \in ProductPks(request_id[p]) :
            /\ k # log[p][i].pk
            /\ products[k].processed
            /\ Len(OutputList(k)) = 2

(***************************************************************************)
(* C3.  A product of which one image was fetched but could not be         *)
(* decoded or re-encoded, and whose other images were stored, is not      *)
(* aborted: once the run has ended it is processed and its output list    *)
(* holds the locations of the other images, in order, one fewer than its  *)
(* input URLs.                                                             *)
(***************************************************************************)
C3_DecodeFailureSkipped ==
    \A p \in Procs : \A pk \in ProductPks(request_id[p]) :
        ( /\ RunEnded(p)
          /\ Cardinality(EventsOf(p, pk, DecodeFailures)) = 1
          /\ EventsOf(p, pk, {"fetch_failed", "store_failed", "save_failed"}) = {} )
        => /\ products[pk].processed
           /\ Len(OutputList(pk)) = Len(InputList(pk)) - 1
           /\ OutputList(pk) =
                 LET stored == SelectSeq(AttemptsOn(p, pk), LAMBDA e : e.ev = "stored")
                 IN  [i \in 1..Len(stored) |-> stored[i].loc]

(***************************************************************************)
(* C4.  A product whose N input URLs were all fetched, re-encoded and     *)
(* stored, and whose save did not fail, is processed with exactly N       *)
(* output entries, the i-th being the location of the i-th input URL.     *)
(***************************************************************************)
C4_AllImagesStored ==
    \A p \in Procs : \A pk \in ProductPks(request_id[p]) :
        LET a == AttemptsOn(p, pk)
            ins == InputList(pk)
        IN  ( /\ Len(a) = Len(ins)
              /\ \A i \in 1..Len(a) : a[i].ev = "stored" /\ a[i].url = ins[i]
              /\ pc[p] # "save"
              /\ EventsOf(p, pk, {"save_failed"}) = {} )
            => /\ products[pk].processed
               /\ OutputList(pk) = [i \in 1..Len(ins) |-> ExpectedLocation(ins[i])]

\* A product with two input URLs, both stored, has been saved.
C4_Witness ==
    \E p \in Procs : \E pk \in ProductPks(request_id[p]) :
        /\ Len(InputList(pk)) = 2
        /\ Len(AttemptsOn(p, pk)) = 2
        /\ \A i \in 1..2 : AttemptsOn(p, pk)[i].ev = "stored"
        /\ products[pk].processed

(***************************************************************************)
(* C5.  A run triggered by the view in which no fetch and no write to the *)
(* stores failed, whatever the decoding of each image did, has ended with *)
(* every product processed, the summary file written with one row per     *)
(* product, and the request completed.                                     *)
(***************************************************************************)
C5_RunCompletes ==
    \A p \in Procs :
        (RunEnded(p) /\ origin[p] = "view" /\ Events(p, OtherFailures) = {})
        => LET rid == request_id[p]
           IN  /\ \A pk \in ProductPks(rid) : products[pk].processed
               /\ requests[rid].result_file \in 1..Len(artifacts)
               /\ Len(CsvParse(artifacts[requests[rid].result_file]))
                     = 1 + Cardinality(ProductPks(rid))
               /\ requests[rid].completed

(***************************************************************************)
(* C6.  A product that is processed is never written again: no step       *)
(* changes its row.                                                        *)
(***************************************************************************)
C6_ProcessedFrozen ==
    [][\A pk \in 1..Len(products) :
          products[pk].processed =>
              pk \in 1..Len(products') /\ products'[pk] = products[pk]]_vars

\* A processed product with output, in a run that a failure on a later
\* product ended.
C6_Witness ==
    \E p \in Procs : \E pk, k \in ProductPks(request_id[p]) :
        /\ pc[p] = "returned"
        /\ products[pk].processed
        /\ products[pk].output_image_urls # <<>>
        /\ ~products[k].processed
        /\ EventsOf(p, k, {"fetch_failed"}) # {}

(***************************************************************************)
(* C7.  The products are processed in the order of their creation: when   *)
(* an image of a product is attempted or the product is saved, every      *)
(* product of the request created before it has been saved.                *)
(***************************************************************************)
C7_ManifestOrder ==
    \A p \in Procs : \A i \in 1..Len(log[p]) :
        log[p][i].pk # 0 =>
            \A k \in ProductPks(request_id[p]) :
                k < log[p][i].pk =>
                    \E j \in 1..(i - 1) :
                        log[p][j].ev = "saved" /\ log[p][j].pk = k

(***************************************************************************)
(* C8.  The summary file a run wrote reads as the header row followed by  *)
(* one row per product of the request, in the order in which the products *)
(* were saved, each with the product's serial number, name, input URL     *)
(* string and stored output URL string.                                    *)
(***************************************************************************)
C8_SummaryRows ==
    \A p \in Procs :
        LET ref == task[p].processing_request.result_file
            rows == CsvParse(artifacts[ref])
            order == SavedOrder(p)
        IN  ref # NoFile =>
              /\ Len(order) = Cardinality(ProductPks(request_id[p]))
              /\ Len(rows) = 1 + Len(order)
              /\ rows[1] = << <<"Serial Number">>, <<"Product Name">>,
                              <<"Input Image Urls">>, <<"Output Image Urls">> >>
              /\ \A j \in 1..Len(order) :
                    rows[j + 1] = << DecimalText(products[order[j]].serial_number),
                                     products[order[j]].name,
                                     products[order[j]].input_image_urls,
                                     products[order[j]].output_image_urls >>

\* A summary file of a request with two products, one of them with two
\* output URLs.
C8_Witness ==
    \E p \in Procs :
        /\ task[p].processing_request.result_file # NoFile
        /\ Len(SavedOrder(p)) = 2
        /\ \E pk \in ProductPks(request_id[p]) : Len(OutputList(pk)) = 2

(***************************************************************************)
(* C9.  Reading the summary file back gives the header and then exactly   *)
(* the rows the run accumulated, field by field, whatever commas, quotes  *)
(* or line breaks the fields contain.                                      *)
(***************************************************************************)
C9_RoundTrip ==
    \A p \in Procs :
        LET ref == task[p].processing_request.result_file
            data == task[p].output_data
        IN  ref # NoFile =>
              CsvParse(artifacts[ref]) =
                  <<CsvFieldNames>> \o [i \in 1..Len(data) |-> RowFields(data[i])]

Contains(s, c) == \E i \in 1..Len(s) : s[i] = c

\* A summary file with a name holding a comma, a quote and a line break,
\* and with an output field holding a comma.
C9_Witness ==
    \E p \in Procs :
        LET data == task[p].output_data
        IN  /\ task[p].processing_request.result_file # NoFile
            /\ \E i \in 1..Len(data) :
                  /\ Contains(data[i].name, COMMA)
                  /\ Contains(data[i].name, QUOTE)
                  /\ Contains(data[i].name, LF)
            /\ \E i \in 1..Len(data) :
                  Contains(data[i].output_image_urls, COMMA)

(***************************************************************************)
(* C10.  No failure inside a run leaves run: run always returns normally, *)
(* and the view that triggered it answers 201 whatever happened in it.    *)
(***************************************************************************)
C10_RunAlwaysReturns ==
    \A p \in Procs :
        /\ pc[p] # "raised"
        /\ (origin[p] = "view" /\ RunEnded(p) /\ response[p] # 0)
               => response[p] = HTTP_201_CREATED

(***************************************************************************)
(* C11.  A status query with an id that no request row carries is         *)
(* answered as not found: the answer is neither the success status nor    *)
(* the answer the view gives to any failure, and the query changes no     *)
(* table, file or artifact.                                                *)
(***************************************************************************)
C11_UnknownIsNotFound ==
    [][(answer' # answer /\ answer'.asked # 0
            /\ answer'.asked \notin DOMAIN requests)
       => /\ answer'.status # HTTP_200_OK
          /\ answer'.body # ErrorBody("STATUS_EXCEPTION")
          /\ UNCHANGED dbVars]_vars

\* The per-product part of the status of a request.
StatusItems(rid) ==
    {[serial_number |-> products[pk].serial_number,
      name |-> products[pk].name,
      input_image_urls |-> products[pk].input_image_urls,
      output_image_urls |-> products[pk].output_image_urls,
      processed |-> products[pk].processed] : pk \in ProductPks(rid)}

(***************************************************************************)
(* C12.  A status query with the id of an existing request, whatever the  *)
(* state of the request, is answered 200 with the request id, the         *)
(* completed flag and, for each product of the request, its serial        *)
(* number, name, input URLs, output URLs and processed flag (the creation *)
(* time is not part of the model).                                         *)
(***************************************************************************)
C12_StatusOfExisting ==
    [][(answer' # answer /\ answer'.asked \in DOMAIN requests)
       => LET b == answer'.body
          IN  /\ answer'.status = HTTP_200_OK
              /\ DOMAIN b = {"request_id", "completed", "products"}
              /\ b.request_id = answer'.asked
              /\ b.completed = requests[answer'.asked].completed
              /\ b.products = StatusItems(answer'.asked)]_vars

\* The last event of the run's log that wrote, or tried to write, the file.
LastWriteOf(p, i) ==
    \A j \in (i + 1)..Len(log[p]) :
        log[p][j].ev \in {"stored", "store_failed"}
            => Filename(log[p][j].url) # Filename(log[p][i].url)

(***************************************************************************)
(* C13.  Two runs of two different requests do not interfere: when both   *)
(* have ended, each request's products are processed exactly where its    *)
(* own run saved them, it is completed exactly when its own run completed *)
(* it, and every file its run wrote last holds what that run wrote, as    *)
(* after a run alone.                                                      *)
(***************************************************************************)
C13_NoInterference ==
    \A p, q \in DOMAIN pc :
        (request_id[p] # request_id[q] /\ RunEnded(p) /\ RunEnded(q))
        => LET rid == request_id[p]
           IN  /\ \A pk \in ProductPks(rid) :
                     products[pk].processed <=> EventsOf(p, pk, {"saved"}) # {}
               /\ requests[rid].completed <=> Events(p, {"completed"}) # {}
               /\ \A i \in Events(p, {"stored"}) :
                     LastWriteOf(p, i) =>
                         files[Filename(log[p][i].url)] = Transcoded(log[p][i].url)

(***************************************************************************)
(* C14.  The attempts a run makes on a product are on its input URLs, one *)
(* attempt per URL, in their order, and a product is processed only once  *)
(* every one of its input URLs has been attempted.                         *)
(***************************************************************************)
C14_AttemptedBeforeProcessed ==
    \A p \in Procs : \A pk \in ProductPks(request_id[p]) :
        LET a == AttemptsOn(p, pk)
            ins == InputList(pk)
        IN  /\ Len(a) <= Len(ins)
            /\ \A i \in 1..Len(a) : a[i].url = ins[i]
            /\ products[pk].processed => Len(a) = Len(ins)

\* A processed product with two input URLs, the first of which could not
\* be decoded and was skipped.
C14_Witness ==
    \E p \in Procs : \E pk \in ProductPks(request_id[p]) :
        /\ products[pk].processed
        /\ Len(InputList(pk)) = 2
        /\ Len(AttemptsOn(p, pk)) = 2
        /\ AttemptsOn(p, pk)[1].ev = "decode_skipped"

\* The locations of the images of the product that the run stored.
StoredLocations(p, pk) ==
    LET stored == SelectSeq(AttemptsOn(p, pk), LAMBDA e : e.ev = "stored")
    IN  [i \in 1..Len(stored) |-> stored[i].loc]

\* C15 as stated: in every state the stored output list of every product
\* has as many entries as images of the product were stored by the run.
C15_OutputCountAlways ==
    \A p \in Procs : \A pk \in ProductPks(request_id[p]) :
        Len(OutputList(pk)) = Len(StoredLocations(p, pk))

(***************************************************************************)
(* C15.  In every state the stored output list of a product is, when the  *)
(* product is processed, the list of the locations of its images that the *)
(* run stored, one entry per stored image and nothing for the others, and *)
(* is empty when the product is not processed; it never has more entries  *)
(* than the product has input URLs.                                        *)
(***************************************************************************)
C15_OutputCount ==
    \A p \in Procs : \A pk \in ProductPks(request_id[p]) :
        /\ products[pk].processed => OutputList(pk) = StoredLocations(p, pk)
        /\ ~products[pk].processed => OutputList(pk) = <<>>
        /\ Len(OutputList(pk)) <= Len(StoredLocations(p, pk))
        /\ Len(StoredLocations(p, pk)) <= Len(InputList(pk))

\* A processed product with two input URLs, the second of which was
\* skipped: one output entry.
C15_Witness ==
    \E p \in Procs : \E pk \in ProductPks(request_id[p]) :
        /\ products[pk].processed
        /\ Len(InputList(pk)) = 2
        /\ Len(OutputList(pk)) = 1
        /\ AttemptsOn(p, pk)[2].ev = "decode_skipped"

(***************************************************************************)
(* C16.  When generate_csv or complete_request fails, every product of    *)
(* the request having been saved, the request stays not completed in the  *)
(* table, every product stays processed with the output locations the run *)
(* stored for it, and the run ends there: it returns and attempts nothing *)
(* again.                                                                  *)
(***************************************************************************)
C16_LateFailure ==
    \A p \in Procs : \A i \in Events(p, {"csv_failed", "complete_failed"}) :
        LET rid == request_id[p]
        IN  /\ ~requests[rid].completed
            /\ \A pk \in ProductPks(rid) :
                  /\ products[pk].processed
                  /\ OutputList(pk) = StoredLocations(p, pk)
                  /\ Cardinality(EventsOf(p, pk, {"saved"})) = 1
            /\ i = Len(log[p])
            /\ pc[p] = "returned"

\* The completed write failed for a request with two products, one of
\* them with two output locations; the summary file is stored.
C16_Witness ==
    \E p \in Procs :
        /\ Events(p, {"complete_failed"}) # {}
        /\ Cardinality(ProductPks(request_id[p])) = 2
        /\ \E pk \in ProductPks(request_id[p]) : Len(OutputList(pk)) = 2
        /\ requests[request_id[p]].result_file # NoFile

\* A run of the product's request is at its save of a product.
SavingFor(pk) ==
    \E p \in DOMAIN pc :
        /\ pc[p] = "save"
        /\ pc'[p] # "save"
        /\ request_id[p] = products[pk].request

(***************************************************************************)
(* C17.  No step of a run changes the serial number, the name, the input  *)
(* URL string or the request of a product, and a product row changes only *)
(* in the save of a product by a run of the product's own request.         *)
(***************************************************************************)
C17_InputFieldsKept ==
    [][\A pk \in 1..Len(products) :
          /\ pk \in 1..Len(products')
          /\ products'[pk].request = products[pk].request
          /\ products'[pk].serial_number = products[pk].serial_number
          /\ products'[pk].name = products[pk].name
          /\ products'[pk].input_image_urls = products[pk].input_image_urls
          /\ products'[pk] # products[pk] => SavingFor(pk)]_vars

\* Two runs of two requests: the product of one is saved with its output
\* locations, that of the other, whose run has stored an image, is not yet.
C17_Witness ==
    /\ request_id["r1"] # request_id["r2"]
    /\ \E pk, k \in 1..Len(products) :
          /\ products[pk].request # products[k].request
          /\ products[pk].processed
          /\ products[pk].output_image_urls # <<>>
          /\ ~products[k].processed
          /\ \E p \in DOMAIN pc : EventsOf(p, k, {"stored"}) # {}

\* C18 as stated: a request that is not completed refers to no summary
\* file.
C18_NoReferenceUntilCompleted ==
    \A rid \in DOMAIN requests :
        ~requests[rid].completed => requests[rid].result_file = NoFile

(***************************************************************************)
(* C18.  A request refers to no summary file until all its products are   *)
(* processed and the summary is stored: a request with a reference has    *)
(* every product processed and the reference is that of a stored file     *)
(* with the header and one row per product; the reference is written      *)
(* before completed is, and a completed request has it.                    *)
(***************************************************************************)
C18_ReferenceAfterSummary ==
    \A rid \in DOMAIN requests :
        LET ref == requests[rid].result_file
        IN  /\ ref # NoFile =>
                  /\ \A pk \in ProductPks(rid) : products[pk].processed
                  /\ ref \in 1..Len(artifacts)
                  /\ Len(CsvParse(artifacts[ref])) = 1 + Cardinality(ProductPks(rid))
            /\ requests[rid].completed => ref # NoFile

\* A request with two products whose run has ended: it refers to its
\* summary file and is not completed.
C18_Witness ==
    \E p \in Procs :
        /\ RunEnded(p)
        /\ request_id[p] \in DOMAIN requests
        /\ requests[request_id[p]].result_file # NoFile
        /\ ~requests[request_id[p]].completed
        /\ Cardinality(ProductPks(request_id[p])) = 2

(***************************************************************************)
(* C19.  The file stored for one URL is not overwritten by the output of  *)
(* another URL: in every state, the file at the location the run recorded *)
(* for a URL it stored holds the re-encoded image of that URL, also when  *)
(* two URLs have the same basename.                                        *)
(***************************************************************************)
C19_LocationsHoldTheirImage ==
    \A p \in Procs : \A i \in Events(p, {"stored"}) :
        /\ log[p][i].loc = ImageUrl(Filename(log[p][i].url))
        /\ files[Filename(log[p][i].url)] = Transcoded(log[p][i].url)

(***************************************************************************)
(* C20.  With run invoked more than once for the same request and the     *)
(* invocations interleaved, no step takes completed back from true to     *)
(* false in the request table.                                             *)
(***************************************************************************)
C20_CompletedNotReverted ==
    [][\A p, q \in DOMAIN pc :
          LET rid == request_id[p]
          IN  (p # q /\ request_id[q] = rid /\ requests[rid].completed)
                  => requests'[rid].completed]_vars

(***************************************************************************)
(* C21.  An upload that the view answers with an error before it calls    *)
(* run leaves nothing behind: no request row with its id, no product of   *)
(* it, and no run started for it.                                          *)
(***************************************************************************)
C21_IntakeAllOrNothing ==
    \A p \in Procs :
        (origin[p] = "view" /\ pc[p] = "done" /\ response[p] # 0)
        => /\ request_id[p] \notin DOMAIN requests
           /\ ProductPks(request_id[p]) = {}
           /\ task[p] = NoTask
           /\ log[p] = <<>>

====
